---- MODULE Spec2Model ----
(***************************************************************************)
(* A model of the parking-lot management program.                          *)
(*                                                                         *)
(* The relational tables the managers read and write are the state.  Each  *)
(* public method of VehicleManager, SpaceManager / SpaceAllocationAlgorithm,*)
(* PaymentProcessor, UserManager and FeeCalculator is one action, taken    *)
(* atomically except where a specification says otherwise (SpecRace).      *)
(*                                                                         *)
(* Conventions                                                             *)
(*   - SQL NULL / Python None in an id or time column is 0 (NULL); row ids *)
(*     are AUTOINCREMENT and start at 1, and the code tests them with      *)
(*     `if not x`, which treats None and 0 alike.                          *)
(*   - a table is a function from the ids of its rows to the rows.         *)
(*   - an optional preferred floor is <<>> (None) or <<f>>.                *)
(*   - a TEXT space_number is the sequence of its characters' codes; TEXT  *)
(*     columns order lexicographically (TextLess).                         *)
(*   - vehicle / space categories: "small" is the source's category        *)
(*     '小型车', "large" is '大型车', "energy" is '新能源汽车'.             *)
(*   - money is counted in fen (1/100 yuan); a discount rate is counted    *)
(*     in percent.                                                         *)
(*   - ret is the outcome of the last call: the operation, whether it      *)
(*     returned normally with a success value (ok) and the value returned. *)
(***************************************************************************)
EXTENDS Integers, Sequences, FiniteSets, TLC

VARIABLES
    parking_spaces,       \* table parking_spaces: id -> row
    space_seq,            \* AUTOINCREMENT counter of parking_spaces
    vehicles,             \* table vehicles: id -> row
    vehicle_seq,          \* AUTOINCREMENT counter of vehicles
    parking_transactions, \* table parking_transactions: sequence of rows
    users,                \* table users: id -> row
    member_levels,        \* table member_levels: level_name -> row
    fee_rules,            \* table fee_rules: id -> row
    parking_records,      \* table parking_records: id -> row
    payments,             \* table payments: id -> row
    payment_seq,          \* AUTOINCREMENT counter of payments
    now,                  \* datetime.now(), in minutes
    request,              \* SpecFee: the arguments calculate_fee is called with
    pc,                   \* SpecRace: where each caller of allocate_space is
    chosen,               \* SpecRace: the row each caller's query returned
    returned,             \* SpecRace: the value each caller's call returned
    ret                   \* outcome of the last call

spaceVars == <<parking_spaces, space_seq>>
vehicleVars == <<vehicles, vehicle_seq, parking_transactions>>
accountVars == <<users, member_levels>>
paymentVars == <<parking_records, payments, payment_seq>>
raceVars == <<pc, chosen, returned>>

vars == <<spaceVars, vehicleVars, accountVars, fee_rules, paymentVars, now,
          request, raceVars, ret>>

\* what the operations on parking spaces leave alone
OtherThanSpaces ==
    <<vehicleVars, accountVars, fee_rules, paymentVars, now, request, raceVars>>

NULL == 0

----------------------------------------------------------------------------
(* Bounds *)

\* largest id the parking_spaces table hands out
MaxSpaceId == 2
\* largest id the vehicles table hands out
MaxVehicleId == 2

----------------------------------------------------------------------------
(* Input domains *)

Plates == {"A12345", "B67890"}
VehicleTypes == {"small", "large"}

\* space numbers as character codes: "B1-000", "B1-001", "B1-L001", "B2-001"
B1_000 == <<66, 49, 45, 48, 48, 48>>
B1_001 == <<66, 49, 45, 48, 48, 49>>
B1_L001 == <<66, 49, 45, 76, 48, 48, 49>>
B2_001 == <<66, 50, 45, 48, 48, 49>>

\* the rows of a table, as a set of ids
Ids(table) == DOMAIN table

\* table with the row `id` added or replaced
Put(table, id, row) == [i \in Ids(table) \cup {id} |-> IF i = id THEN row ELSE table[i]]

\* table without the row `id`
Drop(table, id) == [i \in Ids(table) \ {id} |-> table[i]]

Result(op, ok, val) == [op |-> op, ok |-> ok, val |-> val]

----------------------------------------------------------------------------
(* Ordering of query results *)

RECURSIVE TextLess(_, _)
\* a < b for two TEXT values under SQLite's default (byte-wise) collation
TextLess(a, b) ==
    IF b = <<>> THEN FALSE
    ELSE IF a = <<>> THEN TRUE
    ELSE IF a[1] # b[1] THEN a[1] < b[1]
    ELSE TextLess(Tail(a), Tail(b))

\* ORDER BY floor ASC, space_number ASC: row r sorts before row s
SpaceOrderBefore(r, s) ==
    \/ r.floor < s.floor
    \/ r.floor = s.floor /\ TextLess(r.space_number, s.space_number)

\* the ids the allocation query selects
AvailableMatches(spaces, vehicle_type, preferred_floor) ==
    {i \in Ids(spaces) :
        /\ spaces[i].status = "available"
        /\ spaces[i].space_type = vehicle_type
        /\ (preferred_floor # <<>> => spaces[i].floor = preferred_floor[1])}

\* the allocation query without its ORDER BY: the matching row of lowest id
FirstAvailable_ById(spaces, vehicle_type, preferred_floor) ==
    LET m == AvailableMatches(spaces, vehicle_type, preferred_floor)
    IN  IF m = {} THEN NULL ELSE CHOOSE i \in m : \A j \in m : i <= j

\* the allocation query without its status condition: the first space of the
\* category (on the floor), available or not
FirstAvailable_AnyStatus(spaces, vehicle_type, preferred_floor) ==
    LET m == {i \in Ids(spaces) :
                 /\ spaces[i].space_type = vehicle_type
                 /\ (preferred_floor = <<>> \/ <<spaces[i].floor>> = preferred_floor)}
    IN  IF m = {} THEN NULL
        ELSE CHOOSE i \in m : \A j \in m \ {i} : SpaceOrderBefore(spaces[i], spaces[j])

\* the allocation query falling back to the category "small" when the
\* requested category has no available space
FirstAvailable_OrDefault(spaces, vehicle_type, preferred_floor) ==
    LET m == AvailableMatches(spaces, vehicle_type, preferred_floor)
        d == AvailableMatches(spaces, "small", preferred_floor)
        pick(c) == CHOOSE i \in c : \A j \in c \ {i} : SpaceOrderBefore(spaces[i], spaces[j])
    IN  IF m # {} THEN pick(m) ELSE IF d # {} THEN pick(d) ELSE NULL

\* fetchone of the allocation query: the first row in order, NULL if none
FirstAvailable(spaces, vehicle_type, preferred_floor) ==
    LET m == AvailableMatches(spaces, vehicle_type, preferred_floor)
    IN  IF m = {} THEN NULL
        ELSE CHOOSE i \in m :
                \A j \in m \ {i} : SpaceOrderBefore(spaces[i], spaces[j])

----------------------------------------------------------------------------
(* SpaceAllocationAlgorithm *)

\* the table after UPDATE parking_spaces SET status = ? WHERE id = ?
SetStatus(spaces, id, status) ==
    IF id \in Ids(spaces)
    THEN [spaces EXCEPT ![id].status = status]
    ELSE spaces

\* the table allocate_space leaves
AllocatedSpaces(spaces, vehicle_type, preferred_floor) ==
    LET s == FirstAvailable(spaces, vehicle_type, preferred_floor)
    IN  IF s # NULL THEN SetStatus(spaces, s, "occupied") ELSE spaces

allocate_space(vehicle_type, preferred_floor) ==
    LET s == FirstAvailable(parking_spaces, vehicle_type, preferred_floor)
    IN  /\ parking_spaces' = AllocatedSpaces(parking_spaces, vehicle_type, preferred_floor)
        /\ ret' = Result("allocate_space", s # NULL, s)
        /\ UNCHANGED <<space_seq, OtherThanSpaces>>

\* an update to 'available' without its WHERE clause: every occupied space
\* is released
ReleasedSpaces_All(spaces, space_id) ==
    [i \in Ids(spaces) |->
        IF spaces[i].status = "occupied" \/ i = space_id
        THEN [spaces[i] EXCEPT !.status = "available"]
        ELSE spaces[i]]

\* an update to 'available' of occupied spaces only
ReleasedSpaces_OccupiedOnly(spaces, space_id) ==
    IF space_id \in Ids(spaces) /\ spaces[space_id].status = "occupied"
    THEN [spaces EXCEPT ![space_id].status = "available"]
    ELSE spaces

\* the table release_space leaves
ReleasedSpaces(spaces, space_id) == SetStatus(spaces, space_id, "available")

release_space(space_id) ==
    /\ parking_spaces' = ReleasedSpaces(parking_spaces, space_id)
    /\ ret' = Result("release_space", space_id \in Ids(parking_spaces), NULL)
    /\ UNCHANGED <<space_seq, OtherThanSpaces>>

\* a reservation that does not look at is_reserved
reserve_space_Overwrite(space_id, user_id) ==
    LET free == /\ space_id \in Ids(parking_spaces)
                /\ parking_spaces[space_id].status = "available"
    IN  /\ parking_spaces' =
              IF free
              THEN [parking_spaces EXCEPT ![space_id].is_reserved = TRUE,
                                          ![space_id].reserved_user_id = user_id]
              ELSE parking_spaces
        /\ ret' = Result("reserve_space", free, NULL)
        /\ UNCHANGED <<space_seq, OtherThanSpaces>>

reserve_space(space_id, user_id) ==
    LET found == space_id \in Ids(parking_spaces)
        free  == /\ found
                 /\ parking_spaces[space_id].status = "available"
                 /\ ~parking_spaces[space_id].is_reserved
    IN  /\ parking_spaces' =
              IF free
              THEN [parking_spaces EXCEPT ![space_id].is_reserved = TRUE,
                                          ![space_id].reserved_user_id = user_id]
              ELSE parking_spaces
        /\ ret' = Result("reserve_space", free, NULL)
        /\ UNCHANGED <<space_seq, OtherThanSpaces>>

cancel_reservation(space_id) ==
    LET found == space_id \in Ids(parking_spaces)
    IN  /\ parking_spaces' =
              IF found
              THEN [parking_spaces EXCEPT ![space_id].is_reserved = FALSE,
                                          ![space_id].reserved_user_id = NULL]
              ELSE parking_spaces
        /\ ret' = Result("cancel_reservation", found, NULL)
        /\ UNCHANGED <<space_seq, OtherThanSpaces>>

----------------------------------------------------------------------------
(* SpaceManager *)

NewSpace(space_number, floor, space_type) ==
    [space_number |-> space_number, floor |-> floor, space_type |-> space_type,
     status |-> "available", is_reserved |-> FALSE, reserved_user_id |-> NULL]

add_space(space_number, floor, space_type) ==
    LET exists == \E i \in Ids(parking_spaces) :
                      parking_spaces[i].space_number = space_number
    IN  /\ IF exists
           THEN /\ ret' = Result("add_space", FALSE, NULL)
                /\ UNCHANGED <<parking_spaces, space_seq>>
           ELSE /\ space_seq' = space_seq + 1
                /\ parking_spaces' = Put(parking_spaces, space_seq + 1,
                                         NewSpace(space_number, floor, space_type))
                /\ ret' = Result("add_space", TRUE, space_seq + 1)
        /\ UNCHANGED OtherThanSpaces

\* a delete_space that does not look at the status
delete_space_Unchecked(space_id) ==
    /\ parking_spaces' = Drop(parking_spaces, space_id)
    /\ ret' = Result("delete_space", space_id \in Ids(parking_spaces), NULL)
    /\ UNCHANGED <<space_seq, OtherThanSpaces>>

delete_space(space_id) ==
    LET deletable == /\ space_id \in Ids(parking_spaces)
                     /\ parking_spaces[space_id].status # "occupied"
    IN  /\ parking_spaces' = IF deletable THEN Drop(parking_spaces, space_id)
                                          ELSE parking_spaces
        /\ ret' = Result("delete_space", deletable, NULL)
        /\ UNCHANGED <<space_seq, OtherThanSpaces>>

allocate_parking_space(vehicle_type, preferred_floor) ==
    allocate_space(vehicle_type, preferred_floor)

release_parking_space(space_id) ==
    release_space(space_id)

ValidStatuses == {"available", "occupied", "maintenance", "disabled"}

update_space_status(space_id, status) ==
    LET valid == status \in ValidStatuses
    IN  /\ parking_spaces' = IF valid THEN SetStatus(parking_spaces, space_id, status)
                                      ELSE parking_spaces
        /\ ret' = Result("update_space_status",
                         valid /\ space_id \in Ids(parking_spaces), NULL)
        /\ UNCHANGED <<space_seq, OtherThanSpaces>>

----------------------------------------------------------------------------
(* VehicleManager *)

\* what the operations on vehicles alone leave alone
OtherThanVehicles ==
    <<spaceVars, accountVars, fee_rules, paymentVars, now, request, raceVars>>

\* what the operations on vehicles and spaces leave alone
OtherThanLot == <<accountVars, fee_rules, paymentVars, now, request, raceVars>>

NewVehicle(plate_number, vehicle_type) ==
    [plate_number |-> plate_number, vehicle_type |-> vehicle_type,
     status |-> "registered", parking_space_id |-> NULL,
     entry_time |-> NULL, exit_time |-> NULL]

\* get_vehicle_by_plate: the id of the row with that plate, NULL if none
VehicleByPlate(table, plate_number) ==
    IF \E i \in Ids(table) : table[i].plate_number = plate_number
    THEN CHOOSE i \in Ids(table) : table[i].plate_number = plate_number
    ELSE NULL

add_vehicle(plate_number, vehicle_type) ==
    /\ IF VehicleByPlate(vehicles, plate_number) # NULL
       THEN /\ ret' = Result("add_vehicle", FALSE, NULL)
            /\ UNCHANGED <<vehicles, vehicle_seq>>
       ELSE /\ vehicle_seq' = vehicle_seq + 1
            /\ vehicles' = Put(vehicles, vehicle_seq + 1,
                               NewVehicle(plate_number, vehicle_type))
            /\ ret' = Result("add_vehicle", TRUE, vehicle_seq + 1)
    /\ UNCHANGED <<parking_transactions, OtherThanVehicles>>

\* a delete_vehicle that does not look at the status
delete_vehicle_Unchecked(vehicle_id) ==
    /\ vehicles' = Drop(vehicles, vehicle_id)
    /\ ret' = Result("delete_vehicle", vehicle_id \in Ids(vehicles), NULL)
    /\ UNCHANGED <<vehicle_seq, parking_transactions, OtherThanVehicles>>

delete_vehicle(vehicle_id) ==
    LET deletable == /\ vehicle_id \in Ids(vehicles)
                     /\ vehicles[vehicle_id].status # "parking"
    IN  /\ vehicles' = IF deletable THEN Drop(vehicles, vehicle_id) ELSE vehicles
        /\ ret' = Result("delete_vehicle", deletable, NULL)
        /\ UNCHANGED <<vehicle_seq, parking_transactions, OtherThanVehicles>>

\* an entry that adds the vehicle only once a space has been allocated
register_vehicle_entry_RollsBack(plate_number, vehicle_type, preferred_floor) ==
    LET existing == VehicleByPlate(vehicles, plate_number)
        type == IF existing = NULL THEN vehicle_type ELSE vehicles[existing].vehicle_type
        parking_space_id == FirstAvailable(parking_spaces, type, preferred_floor)
        vehicle_id == IF existing = NULL THEN vehicle_seq + 1 ELSE existing
        registered == IF existing = NULL
                      THEN Put(vehicles, vehicle_id, NewVehicle(plate_number, vehicle_type))
                      ELSE vehicles
    IN  IF (existing = NULL /\ vehicle_type = "") \/ parking_space_id = NULL
        THEN /\ ret' = Result("register_vehicle_entry", FALSE, NULL)
             /\ UNCHANGED <<vehicleVars, spaceVars, OtherThanLot>>
        ELSE /\ vehicle_seq' = IF existing = NULL THEN vehicle_seq + 1 ELSE vehicle_seq
             /\ parking_spaces' = AllocatedSpaces(parking_spaces, type, preferred_floor)
             /\ vehicles' = [registered EXCEPT
                                ![vehicle_id].status = "parking",
                                ![vehicle_id].entry_time = now,
                                ![vehicle_id].parking_space_id = parking_space_id]
             /\ ret' = Result("register_vehicle_entry", TRUE, parking_space_id)
             /\ UNCHANGED <<space_seq, parking_transactions, OtherThanLot>>

\* vehicle_type "" is an entry call that gives no vehicle type
register_vehicle_entry(plate_number, vehicle_type, preferred_floor) ==
    LET existing == VehicleByPlate(vehicles, plate_number)
    IN  IF existing = NULL /\ vehicle_type = ""
        THEN /\ ret' = Result("register_vehicle_entry", FALSE, NULL)
             /\ UNCHANGED <<vehicleVars, spaceVars, OtherThanLot>>
        ELSE LET vehicle_id == IF existing = NULL THEN vehicle_seq + 1 ELSE existing
                 registered == IF existing = NULL
                               THEN Put(vehicles, vehicle_id,
                                        NewVehicle(plate_number, vehicle_type))
                               ELSE vehicles
                 type == registered[vehicle_id].vehicle_type
                 parking_space_id == FirstAvailable(parking_spaces, type, preferred_floor)
             IN  /\ vehicle_seq' = IF existing = NULL THEN vehicle_seq + 1 ELSE vehicle_seq
                 /\ parking_spaces' = AllocatedSpaces(parking_spaces, type, preferred_floor)
                 /\ IF parking_space_id = NULL
                    THEN /\ vehicles' = registered
                         /\ ret' = Result("register_vehicle_entry", FALSE, NULL)
                    ELSE /\ vehicles' = [registered EXCEPT
                                            ![vehicle_id].status = "parking",
                                            ![vehicle_id].entry_time = now,
                                            ![vehicle_id].parking_space_id = parking_space_id]
                         /\ ret' = Result("register_vehicle_entry", TRUE, parking_space_id)
                 /\ UNCHANGED <<space_seq, parking_transactions, OtherThanLot>>

\* the methods class FeeManager defines
FeeManagerMethods ==
    {"init", "_add_initial_fee_rules", "add_fee_rule", "update_fee_rule",
     "delete_fee_rule", "get_all_fee_rules", "get_fee_rule_by_id",
     "calculate_parking_fee", "process_exit_payment", "get_payment_history",
     "get_daily_fee_summary", "export_payment_data"}

\* an exit that does not look at the vehicle's status
register_vehicle_exit_Unchecked(plate_number) ==
    LET id == VehicleByPlate(vehicles, plate_number)
    IN  IF id = NULL
        THEN /\ ret' = Result("register_vehicle_exit", FALSE, NULL)
             /\ UNCHANGED <<vehicleVars, spaceVars, OtherThanLot>>
        ELSE /\ parking_spaces' = SetStatus(parking_spaces,
                                            vehicles[id].parking_space_id, "available")
             /\ vehicles' = [vehicles EXCEPT ![id].status = "left",
                                             ![id].exit_time = now,
                                             ![id].parking_space_id = NULL]
             /\ parking_transactions' = Append(parking_transactions,
                    [vehicle_id |-> id,
                     parking_space_id |-> vehicles[id].parking_space_id,
                     entry_time |-> vehicles[id].entry_time,
                     exit_time |-> now,
                     duration |-> now - vehicles[id].entry_time,
                     fee |-> NULL,
                     payment_status |-> "unpaid"])
             /\ ret' = Result("register_vehicle_exit", TRUE, NULL)
             /\ UNCHANGED <<space_seq, vehicle_seq, OtherThanLot>>

\* register_vehicle_exit calls fee_manager.calculate_fee(vehicle_type, duration)
\* before it releases the space: FeeManager has no such method, the call raises
\* AttributeError, the handler's except clause returns None and nothing is
\* written.  The rest of the handler is kept for a FeeManager that had it; the
\* fee such a method would return is not known and is recorded as NULL.
register_vehicle_exit(plate_number) ==
    LET id == VehicleByPlate(vehicles, plate_number)
        proceeds == /\ id # NULL
                    /\ vehicles[id].status = "parking"
                    /\ vehicles[id].parking_space_id # NULL
                    /\ "calculate_fee" \in FeeManagerMethods
    IN  IF ~proceeds
        THEN /\ ret' = Result("register_vehicle_exit", FALSE, NULL)
             /\ UNCHANGED <<vehicleVars, spaceVars, OtherThanLot>>
        ELSE /\ parking_spaces' = SetStatus(parking_spaces,
                                            vehicles[id].parking_space_id, "available")
             /\ vehicles' = [vehicles EXCEPT ![id].status = "left",
                                             ![id].exit_time = now,
                                             ![id].parking_space_id = NULL]
             /\ parking_transactions' = Append(parking_transactions,
                    [vehicle_id |-> id,
                     parking_space_id |-> vehicles[id].parking_space_id,
                     entry_time |-> vehicles[id].entry_time,
                     exit_time |-> now,
                     duration |-> now - vehicles[id].entry_time,
                     fee |-> NULL,
                     payment_status |-> "unpaid"])
             /\ ret' = Result("register_vehicle_exit", TRUE, NULL)
             /\ UNCHANGED <<space_seq, vehicle_seq, OtherThanLot>>

----------------------------------------------------------------------------
(* FeeCalculator *)

\* Python's round(num / den) of a non-negative quotient: to the nearest
\* integer, a tie to the even one
RoundHalfEven(num, den) ==
    LET q == num \div den
        r == num % den
    IN  IF 2 * r < den THEN q
        ELSE IF 2 * r > den THEN q + 1
        ELSE IF q % 2 = 0 THEN q ELSE q + 1

\* minutes in the billing unit of an "hour" rule
HourMinutes == 60
\* minutes in the billing unit of a "half_hour" rule
HalfHourMinutes == 30

\* whole units only: the duration divided by the unit, rounded down
RoundedUnits_Floor(payable_duration, unit) == payable_duration \div unit

\* round(payable_duration / unit + 0.5), as (2 * payable + unit) / (2 * unit)
RoundedUnits(payable_duration, unit) ==
    RoundHalfEven(2 * payable_duration + unit, 2 * unit)

\* the number of units calculate_fee multiplies unit_price by
BillingUnits(time_unit, payable_duration) ==
    IF time_unit = "hour" THEN RoundedUnits(payable_duration, HourMinutes)
    ELSE IF time_unit = "half_hour" THEN RoundedUnits(payable_duration, HalfHourMinutes)
    ELSE payable_duration

\* fetch_one of the active rule of a vehicle type: its id, NULL if none (the
\* query has no ORDER BY; SQLite scans in rowid order)
ActiveRule(rules, vehicle_type) ==
    LET m == {i \in Ids(rules) : rules[i].vehicle_type = vehicle_type /\ rules[i].is_active}
    IN  IF m = {} THEN NULL ELSE CHOOSE i \in m : \A j \in m : i <= j

\* a rule lookup without the second query: the type's own rule or none
ApplicableRule_OwnOnly(rules, vehicle_type) == ActiveRule(rules, vehicle_type)

\* the rule calculate_fee uses: the type's own, else the one of "small"
ApplicableRule(rules, vehicle_type) ==
    IF ActiveRule(rules, vehicle_type) # NULL
    THEN ActiveRule(rules, vehicle_type)
    ELSE ActiveRule(rules, "small")

\* fee after the free duration and the billing units, before the cap
UncappedFee(rule, duration) ==
    IF duration > rule.free_duration
    THEN rule.unit_price * BillingUnits(rule.time_unit, duration - rule.free_duration)
    ELSE 0

\* a fee that max_daily_fee never clamps
CappedFee_NoCap(rule, duration) == UncappedFee(rule, duration)

\* fee after the daily cap
CappedFee(rule, duration) ==
    IF rule.max_daily_fee # NULL /\ UncappedFee(rule, duration) > rule.max_daily_fee
    THEN rule.max_daily_fee
    ELSE UncappedFee(rule, duration)

\* whether calculate_fee multiplies the fee by a member level's discount_rate
DiscountApplies(userTable, levels, user_id) ==
    /\ user_id # NULL
    /\ user_id \in Ids(userTable)
    /\ userTable[user_id].is_member
    /\ userTable[user_id].member_level \in DOMAIN levels

\* the percentage of the capped fee that calculate_fee charges
DiscountPercent(userTable, levels, user_id) ==
    IF DiscountApplies(userTable, levels, user_id)
    THEN levels[userTable[user_id].member_level].discount_rate
    ELSE 100

\* whether calculate_fee returns a fee instead of raising ValueError
FeeDefined(vehicleTable, rules, vehicle_id) ==
    /\ vehicle_id \in Ids(vehicleTable)
    /\ ApplicableRule(rules, vehicleTable[vehicle_id].vehicle_type) # NULL

\* a fee that is discounted first and clamped to max_daily_fee afterwards
CalculatedFee_DiscountFirst(vehicleTable, rules, userTable, levels, vehicle_id, duration, user_id) ==
    LET rule == rules[ApplicableRule(rules, vehicleTable[vehicle_id].vehicle_type)]
        discounted == RoundHalfEven(UncappedFee(rule, duration)
                                        * DiscountPercent(userTable, levels, user_id), 100)
    IN  IF rule.max_daily_fee # NULL /\ discounted > rule.max_daily_fee
        THEN rule.max_daily_fee
        ELSE discounted

\* the fee calculate_fee returns, in fen: round(fee, 2) of the discounted fee
CalculatedFee(vehicleTable, rules, userTable, levels, vehicle_id, duration, user_id) ==
    LET rule == rules[ApplicableRule(rules, vehicleTable[vehicle_id].vehicle_type)]
    IN  RoundHalfEven(CappedFee(rule, duration)
                          * DiscountPercent(userTable, levels, user_id), 100)

\* FeeCalculator.calculate_fee, called with the arguments in request
calculate_fee ==
    /\ ret' = IF FeeDefined(vehicles, fee_rules, request.vehicle_id)
              THEN Result("calculate_fee", TRUE,
                          CalculatedFee(vehicles, fee_rules, users, member_levels,
                                        request.vehicle_id, request.duration,
                                        request.user_id))
              ELSE Result("calculate_fee", FALSE, NULL)
    /\ UNCHANGED <<spaceVars, vehicleVars, accountVars, fee_rules, paymentVars,
                   now, request, raceVars>>

----------------------------------------------------------------------------
(* FeeManager: the fee rules *)

\* what the operations on fee rules leave alone
OtherThanRules ==
    <<spaceVars, vehicleVars, accountVars, paymentVars, now, request, raceVars>>

\* a row of fee_rules as it is inserted: active
NewFeeRule(rule_name, vehicle_type, time_unit, unit_price, free_duration, max_daily_fee) ==
    [rule_name |-> rule_name, vehicle_type |-> vehicle_type, time_unit |-> time_unit,
     unit_price |-> unit_price, free_duration |-> free_duration,
     max_daily_fee |-> max_daily_fee, is_active |-> TRUE]

\* the id the store gives an inserted rule
NextRuleId(rules) ==
    IF Ids(rules) = {} THEN 1
    ELSE (CHOOSE i \in Ids(rules) : \A j \in Ids(rules) : j <= i) + 1

\* FeeManager.add_fee_rule: refused only if the rule name is taken; the new
\* rule is active
add_fee_rule(rule_name, vehicle_type, time_unit, unit_price, free_duration, max_daily_fee) ==
    LET existing == \E i \in Ids(fee_rules) : fee_rules[i].rule_name = rule_name
        rule_id  == NextRuleId(fee_rules)
    IN  /\ fee_rules' =
              IF existing THEN fee_rules
              ELSE Put(fee_rules, rule_id,
                       NewFeeRule(rule_name, vehicle_type, time_unit, unit_price,
                                  free_duration, max_daily_fee))
        /\ ret' = IF existing THEN Result("add_fee_rule", FALSE, NULL)
                  ELSE Result("add_fee_rule", TRUE, rule_id)
        /\ UNCHANGED OtherThanRules

\* the columns update_fee_rule accepts
RuleColumns ==
    {"rule_name", "vehicle_type", "time_unit", "unit_price", "free_duration",
     "max_daily_fee", "is_active"}

\* a rule with the accepted columns of kwargs written over it
UpdatedRule(rule, kwargs) ==
    [k \in DOMAIN rule |->
        IF k \in DOMAIN kwargs \cap RuleColumns THEN kwargs[k] ELSE rule[k]]

\* FeeManager.update_fee_rule: UPDATE ... WHERE id = ?, True whether or not a
\* row has the id
update_fee_rule(rule_id, kwargs) ==
    /\ fee_rules' =
          IF rule_id \in Ids(fee_rules)
          THEN [fee_rules EXCEPT ![rule_id] = UpdatedRule(@, kwargs)]
          ELSE fee_rules
    /\ ret' = Result("update_fee_rule", TRUE, NULL)
    /\ UNCHANGED OtherThanRules

\* FeeManager.delete_fee_rule: DELETE ... WHERE id = ?, True whether or not a
\* row has the id
delete_fee_rule(rule_id) ==
    /\ fee_rules' = Drop(fee_rules, rule_id)
    /\ ret' = Result("delete_fee_rule", TRUE, NULL)
    /\ UNCHANGED OtherThanRules

----------------------------------------------------------------------------
(* PaymentProcessor *)

\* what the payment and balance operations leave alone
OtherThanMoney ==
    <<spaceVars, vehicleVars, member_levels, fee_rules, now, request, raceVars>>

\* UPDATE users SET balance = balance + delta WHERE id = user_id
AdjustBalance(userTable, user_id, delta) ==
    IF user_id \in Ids(userTable)
    THEN [userTable EXCEPT ![user_id].balance = @ + delta]
    ELSE userTable

\* fetch_one of the user with a vehicle plate: its id, NULL if none
UserByPlate(userTable, plate_number) ==
    LET m == {i \in Ids(userTable) : userTable[i].vehicle_plate = plate_number}
    IN  IF m = {} THEN NULL ELSE CHOOSE i \in m : \A j \in m : i <= j

\* a process_payment that rejects only a record that does not exist
PaymentRejected_MissingOnly(records, record_id) ==
    record_id \notin Ids(records)

\* whether process_payment rejects the record (raises ValueError)
PaymentRejected(records, record_id) ==
    \/ record_id \notin Ids(records)
    \/ records[record_id].payment_status = "paid"

\* the users table process_payment leaves
PaidFrom(userTable, amount, payment_method, user_id) ==
    IF payment_method = "balance" /\ user_id # NULL
    THEN AdjustBalance(userTable, user_id, -amount)
    ELSE userTable

process_payment(record_id, amount, payment_method, user_id) ==
    IF PaymentRejected(parking_records, record_id)
    THEN /\ ret' = Result("process_payment", FALSE, NULL)
         /\ UNCHANGED <<users, paymentVars, OtherThanMoney>>
    ELSE /\ payment_seq' = payment_seq + 1
         /\ payments' = Put(payments, payment_seq + 1,
                            [record_id |-> record_id, amount |-> amount,
                             payment_method |-> payment_method, status |-> "success"])
         /\ parking_records' = [parking_records EXCEPT
                                   ![record_id].fee = amount,
                                   ![record_id].payment_status = "paid",
                                   ![record_id].payment_method = payment_method]
         /\ users' = PaidFrom(users, amount, payment_method, user_id)
         /\ ret' = Result("process_payment", TRUE, payment_seq + 1)
         /\ UNCHANGED OtherThanMoney

\* whether refund_payment rejects the payment (raises ValueError)
RefundRejected(paymentTable, records, payment_id) ==
    \/ payment_id \notin Ids(paymentTable)
    \/ paymentTable[payment_id].status # "success"
    \/ paymentTable[payment_id].record_id \notin Ids(records)

\* the user refund_payment credits: the one whose vehicle_plate is the plate
\* of the record's vehicle; NULL if the payment was not from a balance, the
\* vehicle is gone or no user has that plate
RefundedUser(paymentTable, records, vehicleTable, userTable, payment_id) ==
    LET payment == paymentTable[payment_id]
        vehicle_id == records[payment.record_id].vehicle_id
    IN  IF payment.payment_method = "balance" /\ vehicle_id \in Ids(vehicleTable)
        THEN UserByPlate(userTable, vehicleTable[vehicle_id].plate_number)
        ELSE NULL

refund_payment(payment_id) ==
    IF RefundRejected(payments, parking_records, payment_id)
    THEN /\ ret' = Result("refund_payment", FALSE, NULL)
         /\ UNCHANGED <<users, paymentVars, OtherThanMoney>>
    ELSE /\ payments' = [payments EXCEPT ![payment_id].status = "refunded"]
         /\ parking_records' = [parking_records EXCEPT
                 ![payments[payment_id].record_id].payment_status = "refunded"]
         /\ users' = AdjustBalance(users,
                         RefundedUser(payments, parking_records, vehicles, users, payment_id),
                         payments[payment_id].amount)
         /\ ret' = Result("refund_payment", TRUE, NULL)
         /\ UNCHANGED <<payment_seq, OtherThanMoney>>

----------------------------------------------------------------------------
(* UserManager: accounts *)

\* what the operations on users leave alone
OtherThanUsers ==
    <<spaceVars, vehicleVars, member_levels, fee_rules, paymentVars, now, request,
      raceVars>>

\* texts are sequences; hashlib.sha256(text.encode()).hexdigest() is a text
\* again, different from its argument and different for different arguments
Hash(text) == <<"sha256">> \o text

\* the password of the initial admin, and one a user registers with
AdminPassword == <<"admin123">>
UserPassword == <<"pw">>

\* a row of users as register_user inserts it: the password column holds the
\* hash
NewUser(username, password) ==
    [username |-> username, password |-> Hash(password), is_member |-> FALSE,
     member_level |-> "", member_expiry |-> NULL, balance |-> 0,
     vehicle_plate |-> ""]

\* the id the store gives an inserted user
NextUserId(userTable) ==
    IF Ids(userTable) = {} THEN 1
    ELSE (CHOOSE i \in Ids(userTable) : \A j \in Ids(userTable) : j <= i) + 1

\* fetch_one of the user with a username: its id, NULL if none
UserByName(userTable, username) ==
    LET m == {i \in Ids(userTable) : userTable[i].username = username}
    IN  IF m = {} THEN NULL ELSE CHOOSE i \in m : \A j \in m : i <= j

\* UserManager.register_user: refused if the username is taken
register_user(username, password) ==
    LET existing == UserByName(users, username)
        user_id  == NextUserId(users)
    IN  /\ users' = IF existing # NULL THEN users
                    ELSE Put(users, user_id, NewUser(username, password))
        /\ ret' = IF existing # NULL THEN Result("register_user", FALSE, NULL)
                  ELSE Result("register_user", TRUE, user_id)
        /\ UNCHANGED OtherThanUsers

\* a comparison of the stored password with the typed text itself
PasswordMatches_Plain(stored, password) ==
    stored = password

\* login's comparison of the stored password with the typed one
PasswordMatches(stored, password) ==
    stored = Hash(password)

\* UserManager.login: the user must exist and the hashes be equal; nothing is
\* written
login(username, password) ==
    LET id == UserByName(users, username)
        ok == id # NULL /\ PasswordMatches(users[id].password, password)
    IN  /\ ret' = Result("login", ok, IF ok THEN id ELSE NULL)
        /\ UNCHANGED <<users, OtherThanUsers>>

\* UserManager.get_user_by_id: the row as a User object, NULL if there is
\* none; User.__init__ hashes the password it is given, here the stored hash
get_user_by_id(userTable, user_id) ==
    IF user_id \in Ids(userTable)
    THEN [userTable[user_id] EXCEPT !.password = Hash(@)]
    ELSE NULL

\* UserManager.change_password: compares the hash of old_password with the
\* password of the User object
change_password(user_id, old_password, new_password) ==
    LET user == get_user_by_id(users, user_id)
        ok   == user_id \in Ids(users) /\ user.password = Hash(old_password)
    IN  /\ users' = IF ok THEN [users EXCEPT ![user_id].password = Hash(new_password)]
                    ELSE users
        /\ ret' = Result("change_password", ok, NULL)
        /\ UNCHANGED OtherThanUsers

\* the columns update_user accepts
UserColumns ==
    {"username", "password", "role", "real_name", "phone", "email", "vehicle_plate",
     "is_member", "member_level", "member_expiry", "balance"}

\* a user with the accepted columns of kwargs written over it, the password
\* hashed
UpdatedUser(user, kwargs) ==
    [k \in DOMAIN user |->
        IF k \in DOMAIN kwargs \cap UserColumns
        THEN IF k = "password" THEN Hash(kwargs[k]) ELSE kwargs[k]
        ELSE user[k]]

\* UserManager.update_user: UPDATE ... WHERE id = ?, True whether or not a row
\* has the id
update_user(user_id, kwargs) ==
    /\ users' = IF user_id \in Ids(users)
                THEN [users EXCEPT ![user_id] = UpdatedUser(@, kwargs)]
                ELSE users
    /\ ret' = Result("update_user", TRUE, NULL)
    /\ UNCHANGED OtherThanUsers

----------------------------------------------------------------------------
(* UserManager: membership *)

\* minutes in the 30 days of one month of membership
MonthMinutes == 43200

\* UserManager.add_member: the level must exist; UPDATE ... WHERE id = ?, True
\* whether or not a row has the id
add_member(user_id, member_level, duration) ==
    LET known == member_level \in DOMAIN member_levels
    IN  /\ users' = IF known /\ user_id \in Ids(users)
                    THEN [users EXCEPT
                             ![user_id].is_member = TRUE,
                             ![user_id].member_level = member_level,
                             ![user_id].member_expiry = now + MonthMinutes * duration]
                    ELSE users
        /\ ret' = Result("add_member", known, NULL)
        /\ UNCHANGED OtherThanUsers

\* a renewal that always counts from the time of the call
RenewedExpiry_FromNow(member_expiry, at, duration) ==
    at + MonthMinutes * duration

\* the expiry renew_member computes at time `at`
RenewedExpiry(member_expiry, at, duration) ==
    IF member_expiry # NULL /\ member_expiry > at
    THEN member_expiry + MonthMinutes * duration
    ELSE at + MonthMinutes * duration

\* UserManager.renew_member: the user must exist and be a member
renew_member(user_id, duration) ==
    LET user == get_user_by_id(users, user_id)
        ok   == user_id \in Ids(users) /\ user.is_member
    IN  /\ users' = IF ok
                    THEN [users EXCEPT ![user_id].member_expiry =
                             RenewedExpiry(user.member_expiry, now, duration)]
                    ELSE users
        /\ ret' = Result("renew_member", ok, NULL)
        /\ UNCHANGED OtherThanUsers

\* UserManager.cancel_member: UPDATE ... WHERE id = ?, True whether or not a
\* row has the id
cancel_member(user_id) ==
    /\ users' = IF user_id \in Ids(users)
                THEN [users EXCEPT ![user_id].is_member = FALSE,
                                   ![user_id].member_level = "",
                                   ![user_id].member_expiry = NULL]
                ELSE users
    /\ ret' = Result("cancel_member", TRUE, NULL)
    /\ UNCHANGED OtherThanUsers

----------------------------------------------------------------------------
(* UserManager: balance *)

recharge_balance(user_id, amount) ==
    /\ users' = IF amount <= 0 THEN users ELSE AdjustBalance(users, user_id, amount)
    /\ ret' = Result("recharge_balance", amount > 0, NULL)
    /\ UNCHANGED <<paymentVars, OtherThanMoney>>

\* a balance check that also refuses to deduct the whole balance
DeductRejected_Strict(userTable, user_id, amount) ==
    \/ amount <= 0
    \/ user_id \notin Ids(userTable)
    \/ userTable[user_id].balance <= amount

\* whether deduct_balance raises ValueError
DeductRejected(userTable, user_id, amount) ==
    \/ amount <= 0
    \/ user_id \notin Ids(userTable)
    \/ userTable[user_id].balance < amount

deduct_balance(user_id, amount) ==
    /\ users' = IF DeductRejected(users, user_id, amount)
                THEN users
                ELSE AdjustBalance(users, user_id, -amount)
    /\ ret' = Result("deduct_balance", ~DeductRejected(users, user_id, amount), NULL)
    /\ UNCHANGED <<paymentVars, OtherThanMoney>>

----------------------------------------------------------------------------
(* The tables after start-up: each manager's init, scaled down *)

\* SpaceManager._create_initial_spaces, its first space
InitialSpaces ==
    <<NewSpace(B1_001, -1, "small")>>

\* VehicleManager._create_initial_vehicles
InitialVehicles ==
    <<NewVehicle("A12345", "small")>>

\* UserManager._add_initial_admin
InitialUsers ==
    <<NewUser("admin", AdminPassword)>>

\* UserManager._add_initial_member_levels: discount_rate in percent,
\* monthly_fee in fen
InitialMemberLevels ==
    [level \in {"normal", "silver", "gold", "diamond"} |->
        [discount_rate |-> CASE level = "normal" -> 90
                             [] level = "silver" -> 80
                             [] level = "gold" -> 70
                             [] level = "diamond" -> 60,
         monthly_fee |-> CASE level = "normal" -> 5000
                           [] level = "silver" -> 10000
                           [] level = "gold" -> 20000
                           [] level = "diamond" -> 30000]]

\* FeeManager._add_initial_fee_rules
InitialFeeRules ==
    <<NewFeeRule("small_rule", "small", "hour", 500, 30, 5000),
      NewFeeRule("large_rule", "large", "hour", 1000, 15, 10000),
      NewFeeRule("energy_rule", "energy", "hour", 300, 60, 3000)>>

\* the callers of SpecRace
Callers == {"c1", "c2"}

\* the clock at start-up
StartTime == 1

NoRequest == [vehicle_id |-> NULL, duration |-> 0, user_id |-> NULL]

\* what start-up leaves outside the parking lot
InitElsewhere ==
    /\ users = InitialUsers
    /\ member_levels = InitialMemberLevels
    /\ fee_rules = InitialFeeRules
    /\ parking_records = <<>>
    /\ payments = <<>>
    /\ payment_seq = 0
    /\ now = StartTime
    /\ request = NoRequest
    /\ pc = [c \in Callers |-> "idle"]
    /\ chosen = [c \in Callers |-> NULL]
    /\ returned = [c \in Callers |-> NULL]
    /\ ret = Result("init", TRUE, NULL)

----------------------------------------------------------------------------
(* Spec: the parking lot, every operation on vehicles and spaces *)

Init ==
    /\ parking_spaces = InitialSpaces
    /\ space_seq = Len(InitialSpaces)
    /\ vehicles = InitialVehicles
    /\ vehicle_seq = Len(InitialVehicles)
    /\ parking_transactions = <<>>
    /\ InitElsewhere

SpaceIds == 1..MaxSpaceId
VehicleIds == 1..MaxVehicleId

Next ==
    \/ \E p \in Plates, t \in VehicleTypes :
          /\ vehicle_seq < MaxVehicleId
          /\ add_vehicle(p, t)
    \/ \E v \in VehicleIds : delete_vehicle(v)
    \/ \E p \in Plates, t \in VehicleTypes \cup {""}, f \in {<<>>, <<1>>} :
          /\ VehicleByPlate(vehicles, p) = NULL => vehicle_seq < MaxVehicleId
          /\ register_vehicle_entry(p, t, f)
    \/ \E p \in Plates : register_vehicle_exit(p)
    \/ \E t \in VehicleTypes, f \in {<<>>, <<1>>} : allocate_parking_space(t, f)
    \/ \E s \in SpaceIds : release_parking_space(s)
    \/ \E s \in SpaceIds, st \in {"available", "occupied", "maintenance", "reserved"} :
          update_space_status(s, st)
    \/ \E s \in SpaceIds : reserve_space(s, 1)
    \/ \E s \in SpaceIds : cancel_reservation(s)
    \/ \E n \in {B1_000, B1_001}, t \in VehicleTypes :
          /\ space_seq < MaxSpaceId
          /\ add_space(n, 1, t)
    \/ \E s \in SpaceIds : delete_space(s)

Spec == Init /\ [][Next]_vars

----------------------------------------------------------------------------
(* SpecAlloc: the operations on parking spaces alone, on a lot with several *)
(* floors and categories                                                    *)

\* largest id the parking_spaces table hands out under SpecAlloc
AllocMaxSpaceId == 4

\* SpaceManager._create_initial_spaces, one space of each of its first three
\* loops: floor -1 small, floor -1 large, floor -2 small
AllocInitialSpaces ==
    <<NewSpace(B1_001, -1, "small"),
      NewSpace(B1_L001, -1, "large"),
      NewSpace(B2_001, -2, "small")>>

AllocFloors == {-2, -1, 1}
AllocPreferredFloors == {<<>>} \cup {<<f>> : f \in AllocFloors}
AllocSpaceIds == 1..AllocMaxSpaceId

InitAlloc ==
    /\ parking_spaces = AllocInitialSpaces
    /\ space_seq = Len(AllocInitialSpaces)
    /\ vehicles = InitialVehicles
    /\ vehicle_seq = Len(InitialVehicles)
    /\ parking_transactions = <<>>
    /\ InitElsewhere

NextAlloc ==
    \/ \E t \in VehicleTypes, f \in AllocPreferredFloors : allocate_space(t, f)
    \/ \E s \in AllocSpaceIds : release_space(s)
    \/ \E s \in AllocSpaceIds, st \in {"available", "maintenance", "disabled", "reserved"} :
          update_space_status(s, st)
    \/ \E n \in {B1_000, B1_001}, f \in {-1, 1}, t \in VehicleTypes :
          /\ space_seq < AllocMaxSpaceId
          /\ add_space(n, f, t)

SpecAlloc == InitAlloc /\ [][NextAlloc]_vars

----------------------------------------------------------------------------
(* SpecGate: vehicles entering and leaving the lot of SpecAlloc while      *)
(* spaces are deleted, and nothing else                                    *)

NextGate ==
    \/ \E p \in Plates, t \in VehicleTypes \cup {""}, f \in AllocPreferredFloors :
          /\ VehicleByPlate(vehicles, p) = NULL => vehicle_seq < MaxVehicleId
          /\ register_vehicle_entry(p, t, f)
    \/ \E p \in Plates : register_vehicle_exit(p)
    \/ \E s \in AllocSpaceIds : delete_space(s)

SpecGate == InitAlloc /\ [][NextGate]_vars

----------------------------------------------------------------------------
(* SpecRace: two calls of allocate_space, each a query followed by an      *)
(* update, taken in any interleaving                                       *)

\* what a caller of allocate_space leaves alone besides the spaces
OtherThanRace ==
    <<space_seq, vehicleVars, accountVars, fee_rules, paymentVars, now, request, ret>>

\* allocate_space up to its fetchone, by a caller that is in no call: the
\* caller holds the row it read, or returns None when there is none
allocate_query(c, vehicle_type, preferred_floor) ==
    LET s == FirstAvailable(parking_spaces, vehicle_type, preferred_floor)
    IN  /\ pc[c] # "selected"
        /\ chosen' = [chosen EXCEPT ![c] = s]
        /\ pc' = [pc EXCEPT ![c] = IF s = NULL THEN "done" ELSE "selected"]
        /\ returned' = [returned EXCEPT ![c] = NULL]
        /\ UNCHANGED <<parking_spaces, OtherThanRace>>

\* an allocate_space whose update is conditional on the row still being
\* available and that returns None when the update changed no row
ReturnedAfterUpdate_IfAvailable(spaces, id) ==
    IF spaces[id].status = "available" THEN id ELSE NULL

\* what allocate_space returns after its update of row `id`: the update's
\* affected-row count is not looked at
ReturnedAfterUpdate(spaces, id) == id

\* allocate_space from its update on: UPDATE ... WHERE id = ?, then return
allocate_update(c) ==
    /\ pc[c] = "selected"
    /\ parking_spaces' = SetStatus(parking_spaces, chosen[c], "occupied")
    /\ returned' = [returned EXCEPT ![c] = ReturnedAfterUpdate(parking_spaces, chosen[c])]
    /\ pc' = [pc EXCEPT ![c] = "done"]
    /\ UNCHANGED <<chosen, OtherThanRace>>

InitRace == InitAlloc

NextRace ==
    \/ \E c \in Callers, t \in VehicleTypes, f \in AllocPreferredFloors :
          allocate_query(c, t, f)
    \/ \E c \in Callers : allocate_update(c)

SpecRace == InitRace /\ [][NextRace]_vars

----------------------------------------------------------------------------
(* SpecFee: calculate_fee applied to bounded inputs                        *)

\* longest parking duration calculate_fee is called with, in minutes
MaxDuration == 155

\* the vehicles of SpecFee: a small and a large one
FeeVehicles ==
    <<NewVehicle("A12345", "small"), NewVehicle("C54321", "large")>>

\* the rules of "small" in SpecFee: the initial one with any time unit, with
\* or without its daily cap
FeeSmallRules ==
    {NewFeeRule("small_rule", "small", u, 500, 30, cap) :
        u \in {"hour", "half_hour", "minute"}, cap \in {NULL, 5000}}

\* the rules of "large" in SpecFee: the initial one, active or switched off by
\* update_fee_rule(id, is_active=False)
FeeLargeRules ==
    {[NewFeeRule("large_rule", "large", "hour", 1000, 15, 10000) EXCEPT !.is_active = a] :
        a \in BOOLEAN}

\* the fee_rules tables of SpecFee: a rule of "small" or none, followed by a
\* rule of "large" or none
FeeRuleTables ==
    {small \o large :
        small \in {<<>>} \cup {<<r>> : r \in FeeSmallRules},
        large \in {<<>>} \cup {<<r>> : r \in FeeLargeRules}}

\* a user that add_member made a member of a level at StartTime for one month
MemberUser(username, member_level) ==
    [NewUser(username, UserPassword) EXCEPT !.is_member = TRUE,
                              !.member_level = member_level,
                              !.member_expiry = StartTime + MonthMinutes]

\* the users tables of SpecFee: the admin and a user who is or is not a member
FeeUserTables ==
    {<<NewUser("admin", AdminPassword), NewUser("li", UserPassword)>>,
     <<NewUser("admin", AdminPassword), MemberUser("li", "gold")>>}

\* a stay of twelve hours and a minute
LongStay == 721

FeeRequests ==
    [vehicle_id : {1, 2, 3}, duration : (-1..MaxDuration) \cup {LongStay},
     user_id : {NULL, 2}]

InitFee ==
    /\ parking_spaces = InitialSpaces
    /\ space_seq = Len(InitialSpaces)
    /\ vehicles = FeeVehicles
    /\ vehicle_seq = Len(FeeVehicles)
    /\ parking_transactions = <<>>
    /\ users \in FeeUserTables
    /\ member_levels = InitialMemberLevels
    /\ fee_rules \in FeeRuleTables
    /\ parking_records = <<>>
    /\ payments = <<>>
    /\ payment_seq = 0
    /\ now \in {StartTime, StartTime + MonthMinutes + 1}
    /\ request \in FeeRequests
    /\ pc = [c \in Callers |-> "idle"]
    /\ chosen = [c \in Callers |-> NULL]
    /\ returned = [c \in Callers |-> NULL]
    /\ ret = Result("init", TRUE, NULL)

NextFee == calculate_fee

SpecFee == InitFee /\ [][NextFee]_vars

----------------------------------------------------------------------------
(* SpecPay: payments, refunds and balances                                 *)

\* largest id the payments table hands out
MaxPayments == 3
\* largest balance a recharge may reach, in fen
MaxBalance == 1000

\* the users of SpecPay: the first one drives vehicle 1
PayUsers ==
    <<[NewUser("wang", UserPassword) EXCEPT !.vehicle_plate = "A12345"],
      NewUser("li", UserPassword)>>

\* the vehicles of SpecPay
PayVehicles ==
    <<NewVehicle("A12345", "small"), NewVehicle("B67890", "small")>>

NewRecord(vehicle_id) ==
    [vehicle_id |-> vehicle_id, fee |-> NULL, payment_status |-> "unpaid",
     payment_method |-> ""]

\* the parking records of SpecPay: one unpaid visit of each vehicle
PayRecords ==
    <<NewRecord(1), NewRecord(2)>>

InitPay ==
    /\ parking_spaces = InitialSpaces
    /\ space_seq = Len(InitialSpaces)
    /\ vehicles = PayVehicles
    /\ vehicle_seq = Len(PayVehicles)
    /\ parking_transactions = <<>>
    /\ users \in {[PayUsers EXCEPT ![2].balance = b] : b \in {0, 500}}
    /\ member_levels = InitialMemberLevels
    /\ fee_rules = InitialFeeRules
    /\ parking_records = PayRecords
    /\ payments = <<>>
    /\ payment_seq = 0
    /\ now = StartTime
    /\ request = NoRequest
    /\ pc = [c \in Callers |-> "idle"]
    /\ chosen = [c \in Callers |-> NULL]
    /\ returned = [c \in Callers |-> NULL]
    /\ ret = Result("init", TRUE, NULL)

NextPay ==
    \/ \E r \in 1..3, m \in {"balance", "cash"}, u \in {NULL, 1, 2} :
          /\ payment_seq < MaxPayments
          /\ process_payment(r, 500, m, u)
    \/ \E p \in 1..MaxPayments : refund_payment(p)
    \/ \E u \in 1..3, a \in {0, 500} :
          /\ u \in Ids(users) => users[u].balance + a <= MaxBalance
          /\ recharge_balance(u, a)
    \/ \E u \in 1..3, a \in {0, 500, 1000} : deduct_balance(u, a)

SpecPay == InitPay /\ [][NextPay]_vars

----------------------------------------------------------------------------
(* SpecLogin: accounts, their passwords and logins                         *)

\* largest id the users table hands out
MaxUserId == 2

Usernames == {"admin", "li", "wang"}

\* what is typed as a password: two passwords and the hex digests of both
TypedPasswords ==
    {AdminPassword, UserPassword, Hash(AdminPassword), Hash(UserPassword)}

\* the keyword arguments update_user is called with
UserUpdates ==
    {[password |-> p] : p \in {AdminPassword, UserPassword}}
        \cup {[phone |-> "13800000000"], [status |-> "locked"]}

NextLogin ==
    \/ \E n \in Usernames, p \in TypedPasswords :
          /\ NextUserId(users) <= MaxUserId
          /\ register_user(n, p)
    \/ \E n \in Usernames, p \in TypedPasswords : login(n, p)
    \/ \E u \in 1..MaxUserId, o \in TypedPasswords, p \in {AdminPassword, UserPassword} :
          change_password(u, o, p)
    \/ \E u \in 1..MaxUserId, k \in UserUpdates : update_user(u, k)

SpecLogin == Init /\ [][NextLogin]_vars

----------------------------------------------------------------------------
(* SpecMember: memberships granted, renewed and cancelled as time passes   *)

\* half a month of membership
HalfMonth == MonthMinutes \div 2

\* how many half months the clock advances
MaxTicks == 4

\* the latest time of the clock
LastTime == StartTime + MaxTicks * HalfMonth

\* time passes
Tick ==
    /\ now + HalfMonth <= LastTime
    /\ now' = now + HalfMonth
    /\ ret' = Result("tick", TRUE, NULL)
    /\ UNCHANGED <<spaceVars, vehicleVars, accountVars, fee_rules, paymentVars,
                   request, raceVars>>

MemberLevelNames == {"gold", "platinum"}
Durations == {1, 2}

NextMember ==
    \/ /\ NextUserId(users) <= MaxUserId
       /\ register_user("li", UserPassword)
    \/ \E u \in 1..MaxUserId, l \in MemberLevelNames, d \in Durations :
          add_member(u, l, d)
    \/ \E u \in 1..MaxUserId, d \in Durations :
          /\ u \in Ids(users) => users[u].member_expiry <= LastTime
          /\ renew_member(u, d)
    \/ \E u \in 1..MaxUserId : cancel_member(u)
    \/ Tick

SpecMember == Init /\ [][NextMember]_vars

----------------------------------------------------------------------------
(* SpecRules: the fee rules under add, update and delete                   *)

\* largest id the fee_rules table hands out
MaxRuleId == 4

\* the keyword arguments update_fee_rule is called with
RuleUpdates ==
    {[is_active |-> FALSE], [is_active |-> TRUE], [vehicle_type |-> "small"],
     [remark |-> "x"]}

InitRules == Init

NextRules ==
    \/ \E n \in {"small_rule", "night_rule"}, t \in VehicleTypes :
          /\ NextRuleId(fee_rules) <= MaxRuleId
          /\ add_fee_rule(n, t, "hour", 500, 30, NULL)
    \/ \E r \in 1..MaxRuleId, k \in RuleUpdates : update_fee_rule(r, k)
    \/ \E r \in 1..MaxRuleId : delete_fee_rule(r)

SpecRules == InitRules /\ [][NextRules]_vars

----------------------------------------------------------------------------
(* Claims *)

ParkingAt(space_id) ==
    {v \in Ids(vehicles) : /\ vehicles[v].status = "parking"
                           /\ vehicles[v].parking_space_id = space_id}

\* C1: no two vehicles with status 'parking' have the same parking_space_id
C1_NoSharedSpace ==
    \A v, w \in Ids(vehicles) :
        (/\ v # w
         /\ vehicles[v].status = "parking"
         /\ vehicles[w].status = "parking")
        => vehicles[v].parking_space_id # vehicles[w].parking_space_id

\* C2: every space whose status is 'occupied' is referenced by exactly one
\* vehicle with status 'parking'
C2_OccupiedHasOneSession ==
    \A s \in Ids(parking_spaces) :
        parking_spaces[s].status = "occupied" => Cardinality(ParkingAt(s)) = 1

\* C3: the payment status of a parking record only moves unpaid -> paid and
\* paid -> refunded
C3_PaymentStatusForward ==
    [][\A r \in Ids(parking_records) :
          \/ parking_records'[r].payment_status = parking_records[r].payment_status
          \/ /\ parking_records[r].payment_status = "unpaid"
             /\ parking_records'[r].payment_status = "paid"
          \/ /\ parking_records[r].payment_status = "paid"
             /\ parking_records'[r].payment_status = "refunded"]_vars

\* C4: every user's balance is >= 0
C4_BalanceNonNegative ==
    \A u \in Ids(users) : users[u].balance >= 0

\* the least integer >= a / b
Ceil(a, b) == (a + b - 1) \div b

\* C5: for a billable duration b > 0 calculate_fee charges ceil(b / 60) units
\* of an 'hour' rule, ceil(b / 30) units of a 'half_hour' rule and b units of
\* a minute rule (seen in the fee of a call without a user: units times the
\* unit price, clamped to the daily cap)
C5_CeilingUnits ==
    (ret.op = "calculate_fee" /\ ret.ok /\ request.user_id = NULL) =>
        LET rule == fee_rules[ApplicableRule(fee_rules,
                                  vehicles[request.vehicle_id].vehicle_type)]
            b == request.duration - rule.free_duration
            units == IF rule.time_unit = "hour" THEN Ceil(b, 60)
                     ELSE IF rule.time_unit = "half_hour" THEN Ceil(b, 30)
                     ELSE b
            uncapped == rule.unit_price * units
            expected == IF rule.max_daily_fee # NULL /\ uncapped > rule.max_daily_fee
                        THEN rule.max_daily_fee ELSE uncapped
        IN  b > 0 => ret.val = expected

\* the rows of a table, in order: row i before row j
Before(spaces, i, j) ==
    \/ spaces[i].floor < spaces[j].floor
    \/ /\ spaces[i].floor = spaces[j].floor
       /\ TextLess(spaces[i].space_number, spaces[j].space_number)

\* the available spaces of a category, on a floor or on any floor (<<>>)
Candidates(t, f) ==
    {i \in Ids(parking_spaces) :
        /\ parking_spaces[i].status = "available"
        /\ parking_spaces[i].space_type = t
        /\ (f = <<>> \/ <<parking_spaces[i].floor>> = f)}

\* the first of a non-empty set of spaces by (floor, space_number)
Lowest(c) == CHOOSE i \in c : \A j \in c \ {i} : Before(parking_spaces, i, j)

\* C6: when no space of the category is available on the preferred floor but
\* one is on another floor, allocate_space returns, and marks occupied, the
\* lowest (floor, space_number) available space of the category
C6_RetryOtherFloor ==
    [][\A t \in VehicleTypes, f \in AllocFloors :
          (/\ allocate_space(t, <<f>>)
           /\ Candidates(t, <<f>>) = {}
           /\ Candidates(t, <<>>) # {})
          => /\ ret'.ok
             /\ ret'.val = Lowest(Candidates(t, <<>>))
             /\ parking_spaces'[ret'.val].status = "occupied"]_vars

C8_FirstFit ==
    [][\A t \in VehicleTypes, f \in AllocPreferredFloors :
          (allocate_space(t, f) /\ Candidates(t, f) # {})
          => /\ ret'.ok
             /\ ret'.val \in Candidates(t, f)
             /\ \A j \in Candidates(t, f) \ {ret'.val} :
                    Before(parking_spaces, ret'.val, j)
             /\ parking_spaces' =
                    [parking_spaces EXCEPT ![ret'.val].status = "occupied"]
             /\ parking_spaces[ret'.val].space_type = t]_vars

\* C8 witness: an allocation returned a space although a space of the same
\* category, on the same floor, with a lower id and a higher space number was
\* (and still is) available
C8_Witness ==
    /\ ret.op = "allocate_space"
    /\ ret.ok
    /\ \E j \in Ids(parking_spaces) :
          /\ j < ret.val
          /\ parking_spaces[j].status = "available"
          /\ parking_spaces[j].space_type = parking_spaces[ret.val].space_type
          /\ parking_spaces[j].floor = parking_spaces[ret.val].floor
          /\ TextLess(parking_spaces[ret.val].space_number,
                      parking_spaces[j].space_number)

\* C9: a call of allocate_space that has read a space returns that space and
\* marks it occupied whatever has been written to the space since the read, so
\* two calls that both read the same available space before either writes
\* both return it
C9_UpdateUnconditional ==
    [][\A c \in Callers :
          (pc[c] = "selected" /\ pc'[c] = "done")
          => /\ returned'[c] = chosen[c]
             /\ parking_spaces'[chosen[c]].status = "occupied"]_vars

\* C9 witness: both calls have returned the same space
C9_Witness ==
    /\ pc["c1"] = "done"
    /\ pc["c2"] = "done"
    /\ returned["c1"] # NULL
    /\ returned["c1"] = returned["c2"]

\* C10: for a user who is not a member, or whose member_expiry is in the past,
\* calculate_fee returns the undiscounted fee
C10_DiscountOnlyUnexpired ==
    (ret.op = "calculate_fee" /\ ret.ok) =>
        LET u == request.user_id
            active == /\ u \in Ids(users)
                      /\ users[u].is_member
                      /\ users[u].member_expiry > now
        IN  ~active => ret.val = CalculatedFee(vehicles, fee_rules, users, member_levels,
                                               request.vehicle_id, request.duration, NULL)

\* the active rules of a vehicle type
ActiveRules(t) ==
    {i \in Ids(fee_rules) : fee_rules[i].vehicle_type = t /\ fee_rules[i].is_active}

\* C11: at most one active fee rule exists for any vehicle type
C11_OneActiveRulePerType ==
    \A t \in {"small", "large", "energy"} : Cardinality(ActiveRules(t)) <= 1

\* the rule the last calculate_fee used, and the fee the same call would
\* return for another duration
RequestRule ==
    fee_rules[ApplicableRule(fee_rules, vehicles[request.vehicle_id].vehicle_type)]

FeeFor(d) ==
    CalculatedFee(vehicles, fee_rules, users, member_levels,
                  request.vehicle_id, d, request.user_id)

\* C12: for a fixed vehicle, rule table and user, the fee of a duration is at
\* least the fee of every shorter duration, and equals the fee of every
\* shorter duration whose uncapped fee has reached the daily cap
C12_Monotonic ==
    (ret.op = "calculate_fee" /\ ret.ok) =>
        \A d \in -1..request.duration :
            /\ FeeFor(d) <= ret.val
            /\ (/\ RequestRule.max_daily_fee # NULL
                /\ UncappedFee(RequestRule, d) >= RequestRule.max_daily_fee)
               => FeeFor(d) = ret.val

\* C12 witness: a fee was calculated for a duration longer than one at which
\* the uncapped fee had already passed the daily cap
C12_Witness ==
    /\ ret.op = "calculate_fee"
    /\ ret.ok
    /\ RequestRule.max_daily_fee # NULL
    /\ RequestRule.unit_price * (request.duration - 1 - RequestRule.free_duration)
           > RequestRule.max_daily_fee
    /\ RequestRule.time_unit = "minute"
    /\ ret.val > 0

\* whether the user of the last calculate_fee is a member of a known level
\* whose membership has not expired
RequestByActiveMember ==
    /\ request.user_id \in Ids(users)
    /\ users[request.user_id].is_member
    /\ users[request.user_id].member_level \in DOMAIN member_levels
    /\ users[request.user_id].member_expiry > now

\* C13: when the rule has a daily cap and the user's membership discount
\* applies, the fee is the units times the unit price, clamped to the cap and
\* then multiplied by the discount rate, and it never exceeds the cap
C13_CapThenDiscount ==
    (ret.op = "calculate_fee" /\ ret.ok /\ RequestByActiveMember
        /\ RequestRule.max_daily_fee # NULL) =>
        LET uncapped == UncappedFee(RequestRule, request.duration)
            cap      == RequestRule.max_daily_fee
            clamped  == IF uncapped > cap THEN cap ELSE uncapped
            rate     == member_levels[users[request.user_id].member_level].discount_rate
        IN  /\ ret.val = RoundHalfEven(clamped * rate, 100)
            /\ ret.val <= cap

\* C13 witness: a fee was calculated for an active member whose uncapped fee,
\* even after the discount, is above the cap
C13_Witness ==
    /\ ret.op = "calculate_fee"
    /\ ret.ok
    /\ RequestByActiveMember
    /\ RequestRule.max_daily_fee # NULL
    /\ UncappedFee(RequestRule, request.duration)
         * member_levels[users[request.user_id].member_level].discount_rate
           > 100 * RequestRule.max_daily_fee

\* C14: without a membership the fee of a duration up to free_duration (zero
\* and negative ones included) is 0 and the fee of free_duration + 1 is one
\* unit_price clamped to the cap; for the rule {free 30, 5.00 an hour, cap
\* 50.00}: 30 -> 0, 31 -> 5.00, 721 -> 50.00
C14_FreeBoundary ==
    (ret.op = "calculate_fee" /\ ret.ok
        /\ (request.user_id = NULL \/ ~users[request.user_id].is_member)) =>
        LET rule == RequestRule
            d    == request.duration
            one  == IF rule.max_daily_fee # NULL /\ rule.unit_price > rule.max_daily_fee
                    THEN rule.max_daily_fee ELSE rule.unit_price
        IN  /\ d <= rule.free_duration => ret.val = 0
            /\ d = rule.free_duration + 1 => ret.val = one
            /\ (/\ rule.time_unit = "hour"
                /\ rule.unit_price = 500
                /\ rule.free_duration = 30
                /\ rule.max_daily_fee = 5000)
               => /\ d = 30 => ret.val = 0
                  /\ d = 31 => ret.val = 500
                  /\ d = 721 => ret.val = 5000

\* C14 witness: a fee of one unit price was calculated for the first minute
\* after the free duration of an hourly rule
C14_Witness ==
    /\ ret.op = "calculate_fee"
    /\ ret.ok
    /\ request.user_id = NULL
    /\ RequestRule.time_unit = "hour"
    /\ request.duration = RequestRule.free_duration + 1
    /\ ret.val = RequestRule.unit_price

\* the fee of the last request under the rule r
FeeUnder(r) ==
    RoundHalfEven(CappedFee(fee_rules[r], request.duration)
                      * DiscountPercent(users, member_levels, request.user_id), 100)

\* C15: for a known vehicle calculate_fee charges by the active rule of the
\* vehicle's own type if there is one, otherwise by the active rule of
\* "small", and fails if there is neither
C15_RuleFallback ==
    (ret.op = "calculate_fee" /\ request.vehicle_id \in Ids(vehicles)) =>
        LET own  == ActiveRules(vehicles[request.vehicle_id].vehicle_type)
            dflt == ActiveRules("small")
        IN  IF own # {} THEN ret.ok /\ \A r \in own : ret.val = FeeUnder(r)
            ELSE IF dflt # {} THEN ret.ok /\ \A r \in dflt : ret.val = FeeUnder(r)
            ELSE ~ret.ok

\* C15 witness: a fee was charged by the rule of "small" for a large vehicle
\* whose own rule is switched off
C15_Witness ==
    /\ ret.op = "calculate_fee"
    /\ ret.ok
    /\ ret.val > 0
    /\ request.vehicle_id \in Ids(vehicles)
    /\ vehicles[request.vehicle_id].vehicle_type = "large"
    /\ ActiveRules("large") = {}
    /\ \E r \in Ids(fee_rules) : fee_rules[r].vehicle_type = "large"

\* C16: an allocate_space call that finds no available space of the category
\* (on the preferred floor, if one is given) returns None, and a call that
\* returns None leaves the status of every space unchanged
C16_FailureChangesNothing ==
    [][\A t \in VehicleTypes, f \in AllocPreferredFloors :
          allocate_space(t, f)
          => /\ Candidates(t, f) = {} => (~ret'.ok /\ ret'.val = NULL)
             /\ ~ret'.ok =>
                  /\ Ids(parking_spaces') = Ids(parking_spaces)
                  /\ \A s \in Ids(parking_spaces) :
                        parking_spaces'[s].status = parking_spaces[s].status]_vars

\* C16 witness: an allocation has failed on a lot that has spaces, none of
\* them available
C16_Witness ==
    /\ ret.op = "allocate_space"
    /\ ~ret.ok
    /\ Ids(parking_spaces) # {}
    /\ \A s \in Ids(parking_spaces) : parking_spaces[s].status # "available"

\* C17: releasing the space that allocate_space has just returned leaves that
\* space 'available' and every other space as it is, which is the table from
\* before the allocation, and allocate_space with the same arguments then
\* selects the same space
C17_AllocateReleaseRoundTrip ==
    [][\A t \in VehicleTypes, f \in AllocPreferredFloors :
          (allocate_space(t, f) /\ ret'.ok)
          => LET s == ret'.val
                 released == ReleasedSpaces(parking_spaces', s)
             IN  /\ released[s].status = "available"
                 /\ \A o \in Ids(parking_spaces') \ {s} :
                        released[o] = parking_spaces'[o]
                 /\ released = parking_spaces
                 /\ FirstAvailable(released, t, f) = s]_vars

\* C17 witness: a space has been allocated while another space is occupied
\* and a further space of the same category is available
C17_Witness ==
    /\ ret.op = "allocate_space"
    /\ ret.ok
    /\ \E o \in Ids(parking_spaces) \ {ret.val} : parking_spaces[o].status = "occupied"
    /\ Candidates(parking_spaces[ret.val].space_type, <<>>) # {}

\* C18: release_space of an existing space succeeds and sets that space, and
\* nothing else, to 'available' whatever its status was, and releasing it once
\* more leaves the table as it is
C18_ReleaseIdempotent ==
    [][\A s \in AllocSpaceIds :
          (release_space(s) /\ s \in Ids(parking_spaces))
          => /\ ret'.ok
             /\ parking_spaces' = [parking_spaces EXCEPT ![s].status = "available"]
             /\ ReleasedSpaces(parking_spaces', s) = parking_spaces']_vars

\* C18 witness: a release has succeeded and a space that was put out of use
\* ('maintenance' or 'disabled') is still out of use
C18_Witness ==
    /\ ret.op = "release_space"
    /\ ret.ok
    /\ \E s \in Ids(parking_spaces) : parking_spaces[s].status = "available"
    /\ \E s \in Ids(parking_spaces) : parking_spaces[s].status \in {"maintenance", "disabled"}

\* C19: reserve_space succeeds only on an existing space that is 'available'
\* and not reserved; on any other space it returns failure and changes no
\* space
C19_ReserveGuarded ==
    [][\A s \in SpaceIds :
          reserve_space(s, 1)
          => LET free == /\ s \in Ids(parking_spaces)
                         /\ parking_spaces[s].status = "available"
                         /\ ~parking_spaces[s].is_reserved
             IN  /\ ret'.ok => free
                 /\ ~free => (~ret'.ok /\ parking_spaces' = parking_spaces)]_vars

\* C19 witness: a reservation has failed on a lot where every space id is in
\* use, one space is occupied and every other one is reserved
C19_Witness ==
    /\ ret.op = "reserve_space"
    /\ ~ret.ok
    /\ Ids(parking_spaces) = SpaceIds
    /\ \E s \in SpaceIds : parking_spaces[s].status = "occupied"
    /\ \A s \in SpaceIds :
          parking_spaces[s].status = "occupied" \/ parking_spaces[s].is_reserved

\* C20: deduct_balance of more than the user's balance fails and leaves every
\* balance unchanged; of an amount above 0 and up to the balance it succeeds
\* and lowers that user's balance by exactly the amount
C20_DeductChecked ==
    [][\A u \in Ids(users), a \in {0, 500, 1000} :
          deduct_balance(u, a)
          => /\ a > users[u].balance => (~ret'.ok /\ users' = users)
             /\ (0 < a /\ a <= users[u].balance)
                => /\ ret'.ok
                   /\ users' = [users EXCEPT ![u].balance = @ - a]]_vars

\* C20 witness: a deduction has failed although every user has a positive
\* balance, and one of the balances is below the largest amount asked for
C20_Witness ==
    /\ ret.op = "deduct_balance"
    /\ ~ret.ok
    /\ \A u \in Ids(users) : users[u].balance > 0
    /\ \E u \in Ids(users) : users[u].balance < 1000

\* the arguments register_vehicle_entry is called with
EntryTypes == VehicleTypes \cup {""}
EntryFloors == {<<>>, <<1>>}

\* C21: register_vehicle_exit for a plate that is unknown, or whose vehicle is
\* not 'parking', returns failure, changes no vehicle and no space and adds no
\* transaction
C21_ExitRefused ==
    [][\A p \in Plates :
          (/\ register_vehicle_exit(p)
           /\ \/ VehicleByPlate(vehicles, p) = NULL
              \/ vehicles[VehicleByPlate(vehicles, p)].status # "parking")
          => /\ ~ret'.ok
             /\ vehicles' = vehicles
             /\ parking_spaces' = parking_spaces
             /\ parking_transactions' = parking_transactions]_vars

\* C21 witness: an exit has failed while no vehicle is parking
C21_Witness ==
    /\ ret.op = "register_vehicle_exit"
    /\ ~ret.ok
    /\ Ids(vehicles) # {}
    /\ \A v \in Ids(vehicles) : vehicles[v].status # "parking"

\* C22: delete_vehicle of a 'parking' vehicle returns False and leaves the
\* vehicles and the spaces unchanged, and no step of any operation removes a
\* vehicle that is 'parking'
C22_ParkedNeverDeleted ==
    [][/\ \A v \in VehicleIds :
             (/\ delete_vehicle(v)
              /\ v \in Ids(vehicles)
              /\ vehicles[v].status = "parking")
             => /\ ~ret'.ok
                /\ vehicles' = vehicles
                /\ parking_spaces' = parking_spaces
       /\ \A v \in Ids(vehicles) :
             vehicles[v].status = "parking" => v \in Ids(vehicles')]_vars

\* C22 witness: a delete_vehicle has failed although every vehicle id is in
\* use, and a vehicle is parking
C22_Witness ==
    /\ ret.op = "delete_vehicle"
    /\ ~ret.ok
    /\ Ids(vehicles) = VehicleIds
    /\ \E v \in Ids(vehicles) : vehicles[v].status = "parking"

\* C26: register_vehicle_entry for a plate whose vehicle is already 'parking'
\* leaves the set of 'occupied' spaces and the vehicle's parking_space_id as
\* they are
C26_ReentryAllocatesNothing ==
    [][\A p \in Plates, t \in EntryTypes, f \in EntryFloors :
          LET v == VehicleByPlate(vehicles, p)
          IN  (/\ register_vehicle_entry(p, t, f)
               /\ v # NULL
               /\ vehicles[v].status = "parking")
              => /\ {s \in Ids(parking_spaces') : parking_spaces'[s].status = "occupied"}
                      = {s \in Ids(parking_spaces) : parking_spaces[s].status = "occupied"}
                 /\ vehicles'[v].parking_space_id = vehicles[v].parking_space_id]_vars

\* C27: allocate_space never returns, and so never marks occupied, a space
\* whose is_reserved is true
C27_ReservedNotAllocated ==
    [][\A t \in VehicleTypes, f \in EntryFloors :
          (allocate_space(t, f) /\ ret'.ok)
          => ~parking_spaces[ret'.val].is_reserved]_vars

\* C30 as claimed: a register_vehicle_entry that fails for want of a space
\* leaves the vehicles and the spaces exactly as before, also when the plate
\* was not registered
C30_FailedEntryNoChange ==
    [][\A p \in Plates, t \in EntryTypes, f \in EntryFloors :
          (/\ register_vehicle_entry(p, t, f)
           /\ ~ret'.ok
           /\ (VehicleByPlate(vehicles, p) = NULL => t # ""))
          => /\ vehicles' = vehicles
             /\ parking_spaces' = parking_spaces]_vars

\* C30 as amended: a register_vehicle_entry that fails for want of a space
\* leaves every space and every vehicle registered before the call as it
\* was; if the plate was not registered, the vehicle added for it stays,
\* 'registered' and without a space
C30_FailedEntryKeepsNewVehicle ==
    [][\A p \in Plates, t \in EntryTypes, f \in EntryFloors :
          (/\ register_vehicle_entry(p, t, f)
           /\ ~ret'.ok
           /\ (VehicleByPlate(vehicles, p) = NULL => t # ""))
          => /\ parking_spaces' = parking_spaces
             /\ \A v \in Ids(vehicles) : v \in Ids(vehicles') /\ vehicles'[v] = vehicles[v]
             /\ VehicleByPlate(vehicles, p) # NULL => vehicles' = vehicles
             /\ VehicleByPlate(vehicles, p) = NULL
                => /\ Ids(vehicles') = Ids(vehicles) \cup {vehicle_seq + 1}
                   /\ vehicles'[vehicle_seq + 1] = NewVehicle(p, t)]_vars

\* C30 witness: an entry has failed and a vehicle that has never parked is
\* registered while no space of its type is available
C30_Witness ==
    /\ ret.op = "register_vehicle_entry"
    /\ ~ret.ok
    /\ \E v \in Ids(vehicles) :
          /\ v = vehicle_seq
          /\ v > Len(InitialVehicles)
          /\ vehicles[v].status = "registered"
          /\ vehicles[v].entry_time = NULL
          /\ Candidates(vehicles[v].vehicle_type, <<>>) = {}

\* C23: delete_space of an 'occupied' space returns False and leaves the
\* space in place, and after any sequence of entries, exits and delete_space
\* calls every 'parking' vehicle's space is still in the table
C23_ParkedSpaceNeverDeleted ==
    [][/\ \A s \in AllocSpaceIds :
             (/\ delete_space(s)
              /\ s \in Ids(parking_spaces)
              /\ parking_spaces[s].status = "occupied")
             => /\ ~ret'.ok
                /\ parking_spaces' = parking_spaces
       /\ \A v \in Ids(vehicles') :
             vehicles'[v].status = "parking"
             => vehicles'[v].parking_space_id \in Ids(parking_spaces')]_vars

\* C23 witness: a delete_space has failed on a space that a parking vehicle
\* occupies, after another space was deleted
C23_Witness ==
    /\ ret.op = "delete_space"
    /\ ~ret.ok
    /\ Ids(parking_spaces) # 1..space_seq
    /\ \E v \in Ids(vehicles) :
          /\ vehicles[v].status = "parking"
          /\ vehicles[v].parking_space_id \in Ids(parking_spaces)
          /\ parking_spaces[vehicles[v].parking_space_id].status = "occupied"

\* C28: a process_payment with method 'balance' for user u, followed by
\* refund_payment of the payment it created, leaves every user's balance as
\* it was before the payment
C28_PayRefundRestoresBalance ==
    [][\A r \in Ids(parking_records), u \in Ids(users) :
          (process_payment(r, 500, "balance", u) /\ ret'.ok)
          => AdjustBalance(users',
                           RefundedUser(payments', parking_records', vehicles',
                                        users', ret'.val),
                           payments'[ret'.val].amount) = users]_vars

\* the payments with status 'success' that refer to a record
SuccessPayments(paymentTable, record_id) ==
    {p \in Ids(paymentTable) : /\ paymentTable[p].record_id = record_id
                               /\ paymentTable[p].status = "success"}

\* C29: a record is 'paid' exactly when one 'success' payment refers to it,
\* no record ever has two 'success' payments, and paying a paid record or
\* refunding a refunded payment fails and changes no row
C29_OneSuccessPerPaidRecord ==
    [][/\ \A r \in Ids(parking_records') :
             /\ Cardinality(SuccessPayments(payments', r)) <= 1
             /\ parking_records'[r].payment_status = "paid"
                <=> Cardinality(SuccessPayments(payments', r)) = 1
       /\ \A r \in Ids(parking_records), m \in {"balance", "cash"}, u \in {NULL, 1, 2} :
             (/\ process_payment(r, 500, m, u)
              /\ parking_records[r].payment_status = "paid")
             => /\ ~ret'.ok
                /\ UNCHANGED <<payments, payment_seq, parking_records, users>>
       /\ \A p \in Ids(payments) :
             (/\ refund_payment(p)
              /\ payments[p].status = "refunded")
             => /\ ~ret'.ok
                /\ UNCHANGED <<payments, payment_seq, parking_records, users>>]_vars

\* C29 witness: a record that was paid, refunded and paid again has been
\* refused a further payment
C29_Witness ==
    /\ ret.op = "process_payment"
    /\ ~ret.ok
    /\ \E r \in Ids(parking_records), p, q \in Ids(payments) :
          /\ parking_records[r].payment_status = "paid"
          /\ payments[p].record_id = r
          /\ payments[p].status = "refunded"
          /\ payments[q].record_id = r
          /\ payments[q].status = "success"

\* a step that stores a password: it adds a user or changes a stored password
PasswordStored ==
    \E u \in Ids(users') :
        u \notin Ids(users) \/ users'[u].password # users[u].password

\* login succeeds exactly when an account has the username and its stored
\* password is the hash of the typed one, and it changes no state
LoginChecksHash ==
    \A n \in Usernames, p \in TypedPasswords :
        login(n, p)
        => /\ ret'.ok <=> \E u \in Ids(users) : /\ users[u].username = n
                                                 /\ users[u].password = Hash(p)
           /\ UNCHANGED <<users, OtherThanUsers>>

C25_MembershipExpiry ==
    [][/\ \A u \in Ids(users), l \in MemberLevelNames, d \in Durations :
             (add_member(u, l, d) /\ ret'.ok)
             => /\ users'[u].is_member
                /\ users'[u].member_expiry = now + d * 30 * 24 * 60
       /\ \A u \in 1..MaxUserId, d \in Durations :
             renew_member(u, d)
             => IF u \in Ids(users) /\ users[u].is_member
                THEN /\ ret'.ok
                     /\ users'[u].member_expiry =
                           (IF users[u].member_expiry > now
                            THEN users[u].member_expiry ELSE now) + d * 30 * 24 * 60
                ELSE /\ ~ret'.ok
                     /\ users' = users]_vars

\* C25 witness: a renewal has extended a membership that had not expired, to
\* more than two months ahead
C25_Witness ==
    /\ ret.op = "renew_member"
    /\ ret.ok
    /\ \E u \in Ids(users) :
          /\ users[u].is_member
          /\ users[u].member_expiry > now + 2 * MonthMinutes

====
